---- MODULE Spec2Model ----
(***************************************************************************)
(* Model of the Gemini analyzer panel's client-side rate limiter           *)
(* (class RateLimiter in src/components/SimplePanel.tsx) and of the panel  *)
(* component that owns it (GeminiAnalyzerPanel).                           *)
(*                                                                         *)
(* Two specifications share the variables:                                 *)
(*   GovSpec  the RateLimiter class driven through its three methods in    *)
(*            any order, with any constructor arguments;                   *)
(*   Spec     the panel: button clicks, the asynchronous screenshot and    *)
(*            model request, and changes of the panel options.             *)
(*                                                                         *)
(* Time is in milliseconds.  Date.now() is milliseconds since 1970, about  *)
(* 1.7e12, which is beyond TLC's integers; the clock of the model starts   *)
(* at StartTime, which like the real clock is far larger than the window   *)
(* and than every configured spacing, and is read at the instants          *)
(* StartTime + o, o in Offsets.                                            *)
(***************************************************************************)
EXTENDS Integers, Sequences, FiniteSets, TLC

VARIABLES
    now,            \* the wall clock, what Date.now() returns
    limiter,        \* the RateLimiter instance (rateLimiterRef.current)
    options,        \* the panel options (props.options)
    buttonText,     \* useState('Analyse')
    buttonEnabled,  \* useState(true)
    analysisText,   \* useState('Please choose ...')
    rateInfo,       \* useState('')
    pending,        \* the suspended onButtonClick invocations, by await
    govId,          \* identity of the RateLimiter instance
    calls,          \* history: times of recordCall on this instance
    lastOp,         \* history: the operation the last step performed
    lastResult,     \* history: what the last canMakeCall returned
    lastWait,       \* history: what the last getTimeUntilNextCallAllowed returned
    checkedAt,      \* history: time of an admitting canMakeCall not yet recorded
    disciplined,    \* history: every recordCall followed an admitting check
    immediate,      \* history: ... and was made at the time of that check
    recorded,       \* history: recordCall invocations since windowStartTime was set
    firstClick,     \* history: outcome of the first click on this instance
    oldLastCallTime \* history: lastCallTime of the instance this one replaced

vars == <<now, limiter, options, buttonText, buttonEnabled, analysisText,
          rateInfo, pending, govId, calls, lastOp, lastResult, lastWait,
          checkedAt, disciplined, immediate, recorded, firstClick,
          oldLastCallTime>>

panelVars == <<options, buttonText, buttonEnabled, analysisText, rateInfo,
               pending, govId, firstClick, oldLastCallTime>>

(***************************************************************************)
(* Program constants.                                                      *)
(***************************************************************************)
Window == 60000

DefaultMaxCalls == 10

DefaultMinTime == 2000

MsPerSecond == 1000

(***************************************************************************)
(* Bounds of the model.                                                    *)
(***************************************************************************)
StartTime == 1000000

MaxCalls == 3

MaxInstances == 2

MaxSyncDelay == 1

Offsets == {0, 1000, 2000, 59000, 60000, 60001, 61000, 62000, 120001, 120002}

Instants == {StartTime + o : o \in Offsets}

\* the instants at which the panel's events happen
PanelOffsets == {0, 1000, 60000, 60001}

PanelInstants == {StartTime + o : o \in PanelOffsets}

\* constructor arguments tried on the class
MaxArgs == {-1, 0, 1, 2}

MinArgs == {0, 1000, 2000}

\* option values tried on the panel: <<>> is a missing option, <<v>> the number v
MaxOpts == {<<>>, <<-1>>, <<0>>, <<1>>}

MinOpts == {<<>>, <<0>>, <<1000>>}

(***************************************************************************)
(* class RateLimiter                                                       *)
(***************************************************************************)
\* variant: lastCallTime initialised to the construction time instead of 0
RateLimiter_lastNow(maxCalls, minTime, t) ==
    [ lastCallTime        |-> t,
      callsInWindow       |-> 0,
      windowStartTime     |-> t,
      maxCallsPerMinute   |-> maxCalls,
      minTimeBetweenCalls |-> minTime ]

\* constructor: the field initialisers, then windowStartTime = Date.now()
RateLimiter(maxCalls, minTime, t) ==
    [ lastCallTime        |-> 0,
      callsInWindow       |-> 0,
      windowStartTime     |-> t,
      maxCallsPerMinute   |-> maxCalls,
      minTimeBetweenCalls |-> minTime ]

\* variant: the window is reset as soon as 60000 ms have passed (>= for >)
afterCanMakeCall_ge(g, t) ==
    IF t - g.windowStartTime >= Window
      THEN [g EXCEPT !.callsInWindow = 0, !.windowStartTime = t]
      ELSE g

\* variant: the check counts itself as a call
afterCanMakeCall_counting(g, t) ==
    IF t - g.windowStartTime > Window
      THEN [g EXCEPT !.callsInWindow = 1, !.windowStartTime = t]
      ELSE [g EXCEPT !.callsInWindow = @ + 1]

\* variant: the check stamps lastCallTime
afterCanMakeCall_stamp(g, t) ==
    IF t - g.windowStartTime > Window
      THEN [g EXCEPT !.callsInWindow = 0, !.windowStartTime = t, !.lastCallTime = t]
      ELSE [g EXCEPT !.lastCallTime = t]

\* the instance as canMakeCall() leaves it when Date.now() = t
afterCanMakeCall(g, t) ==
    IF t - g.windowStartTime > Window
      THEN [g EXCEPT !.callsInWindow = 0, !.windowStartTime = t]
      ELSE g

\* variant: the spacing must be exceeded (> for >=)
canMakeCall_gt(g, t) ==
    LET h == afterCanMakeCall(g, t)
        timeSinceLastCall == t - h.lastCallTime
    IN  /\ h.callsInWindow < h.maxCallsPerMinute
        /\ timeSinceLastCall > h.minTimeBetweenCalls

\* variant: the count may reach the maximum (<= for <)
canMakeCall_le(g, t) ==
    LET h == afterCanMakeCall(g, t)
        timeSinceLastCall == t - h.lastCallTime
    IN  /\ h.callsInWindow <= h.maxCallsPerMinute
        /\ timeSinceLastCall >= h.minTimeBetweenCalls

\* variant: the spacing limit is not checked
canMakeCall_noSpacing(g, t) ==
    LET h == afterCanMakeCall(g, t)
    IN  h.callsInWindow < h.maxCallsPerMinute

\* the value canMakeCall() returns when Date.now() = t
canMakeCall(g, t) ==
    LET h == afterCanMakeCall(g, t)
        timeSinceLastCall == t - h.lastCallTime
    IN  /\ h.callsInWindow < h.maxCallsPerMinute
        /\ timeSinceLastCall >= h.minTimeBetweenCalls

\* variant: the call is counted but its time is not kept
recordCall_noStamp(g, t) ==
    [g EXCEPT !.callsInWindow = @ + 1]

\* variant: a call over the limit is not counted
recordCall_guarded(g, t) ==
    IF g.callsInWindow < g.maxCallsPerMinute
      THEN [g EXCEPT !.lastCallTime = t, !.callsInWindow = @ + 1]
      ELSE [g EXCEPT !.lastCallTime = t]

\* variant: the call is counted twice
recordCall_twice(g, t) ==
    [g EXCEPT !.lastCallTime = t, !.callsInWindow = @ + 2]

\* the instance as recordCall() leaves it when Date.now() = t
recordCall(g, t) ==
    [g EXCEPT !.lastCallTime = t, !.callsInWindow = @ + 1]

\* the value getTimeUntilNextCallAllowed() returns when Date.now() = t
getTimeUntilNextCallAllowed(g, t) ==
    LET timeSinceLastCall == t - g.lastCallTime
    IN  IF g.callsInWindow >= g.maxCallsPerMinute
          THEN g.windowStartTime + Window - t
          ELSE IF timeSinceLastCall < g.minTimeBetweenCalls
                 THEN g.minTimeBetweenCalls - timeSinceLastCall
                 ELSE 0

\* variant: the method also rolls the expired window over, as canMakeCall does
afterGetTimeUntilNextCallAllowed_reset(g, t) == afterCanMakeCall(g, t)

\* the instance as getTimeUntilNextCallAllowed() leaves it: no field is assigned
afterGetTimeUntilNextCallAllowed(g, t) == g

(***************************************************************************)
(* The panel's helpers.                                                    *)
(***************************************************************************)
\* a || d on an option that may be missing: undefined and 0 are falsy
OrDefault(o, d) == IF o = <<>> \/ o[1] = 0 THEN d ELSE o[1]

\* new RateLimiter(options.maxCallsPerMinute || 10, options.minTimeBetweenCalls || 2000)
NewLimiter(opts, t) ==
    RateLimiter(OrDefault(opts.maxCallsPerMinute, DefaultMaxCalls),
                OrDefault(opts.minTimeBetweenCalls, DefaultMinTime), t)

\* variant: the limits of the existing instance are updated in place
replaceLimiter_inPlace(old, opts, t) ==
    [old EXCEPT !.maxCallsPerMinute = OrDefault(opts.maxCallsPerMinute, DefaultMaxCalls),
                !.minTimeBetweenCalls = OrDefault(opts.minTimeBetweenCalls, DefaultMinTime)]

\* the effect on [options.maxCallsPerMinute, options.minTimeBetweenCalls]:
\* rateLimiterRef.current is assigned a new instance, the old one is dropped
replaceLimiter(old, opts, t) == NewLimiter(opts, t)

\* Math.ceil(waitTime / 1000)
waitSeconds(waitTime) == -((-waitTime) \div MsPerSecond)

\* sequence q without its i-th element
RemoveAt(q, i) == SubSeq(q, 1, i - 1) \o SubSeq(q, i + 1, Len(q))

\* the instants at which a later statement of the same handler may read the clock
SyncInstants(t) == {u \in PanelInstants : u >= t /\ u - t <= MaxSyncDelay}

(***************************************************************************)
(* Initial states.                                                         *)
(***************************************************************************)
PanelInitial ==
    /\ buttonText = "Analyse"
    /\ buttonEnabled = TRUE
    /\ analysisText = "Please choose"
    /\ rateInfo = <<>>
    /\ pending = <<>>
    /\ govId = 1
    /\ firstClick = "none"
    /\ oldLastCallTime = 0

HistoryInitial ==
    /\ calls = <<>>
    /\ lastOp = "new"
    /\ lastResult = FALSE
    /\ lastWait = 0
    /\ checkedAt = {}
    /\ disciplined = TRUE
    /\ immediate = TRUE
    /\ recorded = 0

\* a RateLimiter constructed directly with arguments from MaxArgs, MinArgs
GovInit ==
    /\ now = StartTime
    /\ \E m \in MaxArgs, s \in MinArgs :
         /\ limiter = RateLimiter(m, s, now)
         /\ options = [maxCallsPerMinute |-> <<m>>, minTimeBetweenCalls |-> <<s>>,
                       apiKey |-> TRUE]
    /\ PanelInitial
    /\ HistoryInitial

\* the mounted panel: the limiter is built from the options
Init ==
    /\ now = StartTime
    /\ \E m \in MaxOpts, s \in MinOpts, k \in BOOLEAN :
         options = [maxCallsPerMinute |-> m, minTimeBetweenCalls |-> s, apiKey |-> k]
    /\ limiter = NewLimiter(options, now)
    /\ PanelInitial
    /\ HistoryInitial

(***************************************************************************)
(* The clock.                                                              *)
(***************************************************************************)
\* time passes between two calls of the class's methods
Tick ==
    /\ \E t \in Instants : t > now /\ now' = t
    /\ lastOp' = "tick"
    /\ UNCHANGED <<limiter, calls, lastResult, lastWait, checkedAt,
                   disciplined, immediate, recorded>>
    /\ UNCHANGED panelVars

\* time passes between two events of the panel
PanelTick ==
    /\ \E t \in PanelInstants : t > now /\ now' = t
    /\ lastOp' = "tick"
    /\ UNCHANGED <<limiter, calls, lastResult, lastWait, checkedAt,
                   disciplined, immediate, recorded>>
    /\ UNCHANGED panelVars

(***************************************************************************)
(* The methods of the class, called by an arbitrary caller.                *)
(***************************************************************************)
\* the count of recorded calls restarts when a step sets windowStartTime anew
RecordedAfter(g, h, n) ==
    IF h.windowStartTime # g.windowStartTime THEN n ELSE recorded + n

CanMakeCall ==
    /\ limiter' = afterCanMakeCall(limiter, now)
    /\ recorded' = RecordedAfter(limiter, limiter', 0)
    /\ lastResult' = canMakeCall(limiter, now)
    /\ checkedAt' = IF canMakeCall(limiter, now) THEN {now} ELSE {}
    /\ lastOp' = "canMakeCall"
    /\ UNCHANGED <<now, calls, lastWait, disciplined, immediate>>
    /\ UNCHANGED panelVars

RecordCall ==
    /\ Len(calls) < MaxCalls
    /\ limiter' = recordCall(limiter, now)
    /\ calls' = Append(calls, now)
    /\ recorded' = RecordedAfter(limiter, limiter', 1)
    /\ disciplined' = (disciplined /\ checkedAt # {})
    /\ immediate' = (immediate /\ checkedAt = {now})
    /\ checkedAt' = {}
    /\ lastOp' = "recordCall"
    /\ UNCHANGED <<now, lastResult, lastWait>>
    /\ UNCHANGED panelVars

GetTimeUntilNextCallAllowed ==
    /\ lastWait' = getTimeUntilNextCallAllowed(limiter, now)
    /\ limiter' = afterGetTimeUntilNextCallAllowed(limiter, now)
    /\ recorded' = RecordedAfter(limiter, limiter', 0)
    /\ lastOp' = "getTimeUntilNextCallAllowed"
    /\ UNCHANGED <<now, calls, lastResult, checkedAt, disciplined, immediate>>
    /\ UNCHANGED panelVars

GovNext == Tick \/ CanMakeCall \/ RecordCall \/ GetTimeUntilNextCallAllowed

GovSpec == GovInit /\ [][GovNext]_vars

(***************************************************************************)
(* The panel: onButtonClick, its awaits, and changes of the options.       *)
(***************************************************************************)
\* what the first click on an instance did; later clicks leave it
FirstClickIs(outcome) ==
    firstClick' = IF firstClick = "none" THEN outcome ELSE firstClick

\* variant: the invocation ends without resetting the button
Finally_keepDisabled(i) ==
    /\ UNCHANGED <<buttonText, buttonEnabled>>
    /\ pending' = RemoveAt(pending, i)

\* the finally block of onButtonClick, for the invocation at pending[i]
Finally(i) ==
    /\ buttonText' = "Analyse"
    /\ buttonEnabled' = TRUE
    /\ pending' = RemoveAt(pending, i)

\* variant: the button can be clicked while an analysis is running
Clickable_always == TRUE

\* <button onClick={onButtonClick} disabled={!buttonEnabled}>
Clickable == buttonEnabled

\* a click the limiter rejects: the early return of onButtonClick
ClickRejected ==
    /\ Clickable
    /\ ~canMakeCall(limiter, now)
    /\ \E t \in SyncInstants(now) :
         LET g        == afterCanMakeCall(limiter, now)
             waitTime == getTimeUntilNextCallAllowed(g, t)
         IN  /\ now' = t
             /\ limiter' = afterGetTimeUntilNextCallAllowed(g, t)
             /\ lastWait' = waitTime
             /\ rateInfo' = <<waitSeconds(waitTime)>>
    /\ lastResult' = FALSE
    /\ checkedAt' = {}
    /\ lastOp' = "clickRejected"
    /\ FirstClickIs("rejected")
    /\ recorded' = RecordedAfter(limiter, limiter', 0)
    /\ UNCHANGED <<options, buttonText, buttonEnabled, analysisText, pending,
                   govId, oldLastCallTime, calls, disciplined, immediate>>

\* a click the limiter admits, up to the first await (html2canvas)
ClickAdmitted ==
    /\ Clickable
    /\ Len(calls) < MaxCalls
    /\ canMakeCall(limiter, now)
    /\ buttonText' = "Analysing..."
    /\ buttonEnabled' = FALSE
    /\ rateInfo' = <<>>
    /\ \E t \in SyncInstants(now) :
         /\ now' = t
         /\ limiter' = recordCall(afterCanMakeCall(limiter, now), t)
         /\ calls' = Append(calls, t)
         /\ immediate' = (immediate /\ t = now)
    /\ pending' = Append(pending, [at |-> "screenshot", apiKey |-> options.apiKey])
    /\ lastResult' = TRUE
    /\ checkedAt' = {}
    /\ lastOp' = "clickAdmitted"
    /\ FirstClickIs("admitted")
    /\ recorded' = RecordedAfter(limiter, limiter', 1)
    /\ UNCHANGED <<options, analysisText, govId, oldLastCallTime, lastWait,
                   disciplined>>

historyKept == <<calls, lastResult, lastWait, checkedAt, disciplined, immediate,
                 recorded>>

\* html2canvas resolved and analyzeWithGemini found no API key
ScreenshotDoneNoKey ==
    /\ \E i \in 1..Len(pending) :
         /\ pending[i].at = "screenshot"
         /\ ~pending[i].apiKey
         /\ Finally(i)
    /\ analysisText' = "Error: Gemini API Key is not configured"
    /\ lastOp' = "screenshotDoneNoKey"
    /\ UNCHANGED <<now, limiter, options, rateInfo, govId, firstClick,
                   oldLastCallTime>>
    /\ UNCHANGED historyKept

\* html2canvas resolved and analyzeWithGemini awaits model.generateContent
ScreenshotDoneRequest ==
    /\ \E i \in 1..Len(pending) :
         /\ pending[i].at = "screenshot"
         /\ pending[i].apiKey
         /\ pending' = [pending EXCEPT ![i].at = "gemini"]
    /\ lastOp' = "screenshotDoneRequest"
    /\ UNCHANGED <<now, limiter, options, buttonText, buttonEnabled, analysisText,
                   rateInfo, govId, firstClick, oldLastCallTime>>
    /\ UNCHANGED historyKept

\* html2canvas or toDataURL threw: the catch block of onButtonClick
ScreenshotFail ==
    /\ \E i \in 1..Len(pending) :
         /\ pending[i].at = "screenshot"
         /\ Finally(i)
    /\ analysisText' = "Error: screenshot"
    /\ lastOp' = "screenshotFail"
    /\ UNCHANGED <<now, limiter, options, rateInfo, govId, firstClick,
                   oldLastCallTime>>
    /\ UNCHANGED historyKept

\* generateContent resolved: the response text is shown
GeminiDone ==
    /\ \E i \in 1..Len(pending) :
         /\ pending[i].at = "gemini"
         /\ Finally(i)
    /\ analysisText' = "response"
    /\ lastOp' = "geminiDone"
    /\ UNCHANGED <<now, limiter, options, rateInfo, govId, firstClick,
                   oldLastCallTime>>
    /\ UNCHANGED historyKept

\* variant: a failed request gives the recorded call back
GeminiFail_rollback ==
    /\ \E i \in 1..Len(pending) :
         /\ pending[i].at = "gemini"
         /\ Finally(i)
    /\ analysisText' = "Error analyzing dashboard"
    /\ lastOp' = "geminiFail"
    /\ limiter' = [limiter EXCEPT !.callsInWindow = @ - 1]
    /\ UNCHANGED <<now, options, rateInfo, govId, firstClick, oldLastCallTime>>
    /\ UNCHANGED historyKept

\* generateContent threw: analyzeWithGemini's catch returns an error text
GeminiFail ==
    /\ \E i \in 1..Len(pending) :
         /\ pending[i].at = "gemini"
         /\ Finally(i)
    /\ analysisText' = "Error analyzing dashboard"
    /\ lastOp' = "geminiFail"
    /\ UNCHANGED <<now, limiter, options, rateInfo, govId, firstClick,
                   oldLastCallTime>>
    /\ UNCHANGED historyKept

\* the options change in maxCallsPerMinute or minTimeBetweenCalls: the effect runs
OptionsChange ==
    /\ govId < MaxInstances
    /\ \E m \in MaxOpts, s \in MinOpts :
         /\ <<m, s>> # <<options.maxCallsPerMinute, options.minTimeBetweenCalls>>
         /\ options' = [options EXCEPT !.maxCallsPerMinute = m,
                                       !.minTimeBetweenCalls = s]
    /\ limiter' = replaceLimiter(limiter, options', now)
    /\ govId' = govId + 1
    /\ oldLastCallTime' = limiter.lastCallTime
    /\ firstClick' = "none"
    /\ calls' = <<>>
    /\ checkedAt' = {}
    /\ disciplined' = TRUE
    /\ immediate' = TRUE
    /\ recorded' = 0
    /\ lastOp' = "optionsChange"
    /\ UNCHANGED <<now, buttonText, buttonEnabled, analysisText, rateInfo,
                   pending, lastResult, lastWait>>

\* another option changes (the API key): a render whose effect does not run
ApiKeyChange ==
    /\ options' = [options EXCEPT !.apiKey = ~@]
    /\ lastOp' = "apiKeyChange"
    /\ UNCHANGED <<now, limiter, buttonText, buttonEnabled, analysisText, rateInfo,
                   pending, govId, firstClick, oldLastCallTime>>
    /\ UNCHANGED historyKept

Next ==
    \/ PanelTick
    \/ ClickRejected
    \/ ClickAdmitted
    \/ ScreenshotDoneNoKey
    \/ ScreenshotDoneRequest
    \/ ScreenshotFail
    \/ GeminiDone
    \/ GeminiFail
    \/ OptionsChange
    \/ ApiKeyChange

Spec == Init /\ [][Next]_vars

(***************************************************************************)
(* Properties of the RateLimiter class (specification GovSpec).            *)
(***************************************************************************)
ValidConfig ==
    /\ limiter.maxCallsPerMinute >= 1
    /\ limiter.minTimeBetweenCalls >= 0

InMinuteBefore(j) == {i \in 1..j : calls[j] - calls[i] < Window}

\* C2: when every recordCall immediately follows an admitting canMakeCall, no
\* interval of 60000 ms holds more than maxCallsPerMinute recorded calls.
C2_RollingWindowLimit ==
    immediate =>
      \A j \in 1..Len(calls) :
         Cardinality(InMinuteBefore(j)) <= limiter.maxCallsPerMinute

\* C3: when every recordCall follows an admitting canMakeCall, consecutive
\* recorded calls are at least minTimeBetweenCalls apart.
C3_MinSpacing ==
    disciplined =>
      \A i \in 1..(Len(calls) - 1) :
         calls[i + 1] - calls[i] >= limiter.minTimeBetweenCalls

\* two admitted calls under a spacing limit, one recorded later than its check
C3_Witness ==
    /\ disciplined /\ ~immediate
    /\ Len(calls) >= 2
    /\ limiter.minTimeBetweenCalls > 0

\* C4: once maxCallsPerMinute calls are counted in the window, canMakeCall
\* returns false up to 60000 ms after the window's start; past that it resets
\* the count to 0 and returns true exactly when the spacing limit is met.
C4_ExhaustedUntilRollover ==
    [][ ( /\ lastOp' = "canMakeCall"
          /\ limiter.maxCallsPerMinute >= 1
          /\ limiter.callsInWindow = limiter.maxCallsPerMinute )
        => /\ now - limiter.windowStartTime <= Window => lastResult' = FALSE
           /\ now - limiter.windowStartTime > Window =>
                /\ limiter'.callsInWindow = 0
                /\ lastResult' =
                     (now - limiter.lastCallTime >= limiter.minTimeBetweenCalls)
      ]_vars

\* the first window was filled and the check 60001 ms after its start admits
C4_Witness ==
    /\ limiter.maxCallsPerMinute >= 1
    /\ Len(calls) = limiter.maxCallsPerMinute
    /\ calls[1] = StartTime
    /\ now = StartTime + Window + 1
    /\ calls[Len(calls)] < now
    /\ disciplined
    /\ lastOp = "canMakeCall" /\ lastResult
    /\ limiter.callsInWindow = 0

\* C5: getTimeUntilNextCallAllowed never returns a negative number.
C5_WaitNonNegative ==
    lastOp = "getTimeUntilNextCallAllowed" => lastWait >= 0

\* C6: with maxCallsPerMinute >= 1, a canMakeCall made the returned wait after
\* getTimeUntilNextCallAllowed, with no call recorded in between, returns true.
C6_AdmittedAfterWait ==
    (limiter.maxCallsPerMinute >= 1 /\ lastOp = "getTimeUntilNextCallAllowed")
      => canMakeCall(limiter, now + lastWait)

\* C7: with a spacing limit and the window not exhausted, after a call recorded
\* at t canMakeCall returns false before t + minTimeBetweenCalls and true from
\* then on, and before it getTimeUntilNextCallAllowed returns what is left.
C7_SpacingAfterRecord ==
    [][ ( /\ limiter.minTimeBetweenCalls > 0
          /\ calls # <<>>
          /\ limiter.callsInWindow < limiter.maxCallsPerMinute )
        => LET due == limiter.lastCallTime + limiter.minTimeBetweenCalls
           IN  /\ lastOp' = "canMakeCall" => lastResult' = (now >= due)
               /\ (lastOp' = "getTimeUntilNextCallAllowed" /\ now < due)
                     => lastWait' = due - now
      ]_vars

\* scenario A: blocked with 1000 ms left, 1000 ms after the recorded call
C7_Witness ==
    /\ limiter.minTimeBetweenCalls = 2000
    /\ limiter.callsInWindow < limiter.maxCallsPerMinute
    /\ calls # <<>>
    /\ now = limiter.lastCallTime + 1000
    /\ lastOp = "getTimeUntilNextCallAllowed" /\ lastWait = 1000
    /\ lastResult = FALSE

\* C8: with maxCallsPerMinute <= 0 canMakeCall returns false, now and at every
\* later instant, whatever was checked or recorded before.
C8_NonPositiveMaxBlocks ==
    limiter.maxCallsPerMinute <= 0 =>
      /\ lastOp = "canMakeCall" => lastResult = FALSE
      /\ \A t \in Instants : t >= now => ~canMakeCall(limiter, t)

\* a blocked limiter checked after calls were recorded and the window rolled over
C8_Witness ==
    /\ limiter.maxCallsPerMinute <= 0
    /\ calls # <<>>
    /\ limiter.windowStartTime > StartTime
    /\ lastOp = "canMakeCall" /\ ~lastResult

\* C9: right after canMakeCall, a second canMakeCall at the same time returns
\* the same value and changes neither windowStartTime nor callsInWindow.
C9_CanMakeCallIdempotent ==
    lastOp = "canMakeCall" =>
      /\ canMakeCall(limiter, now) = lastResult
      /\ afterCanMakeCall(limiter, now) = limiter

\* a check that found the window expired and reset it
C9_Witness ==
    /\ lastOp = "canMakeCall"
    /\ limiter.windowStartTime = now /\ now > StartTime
    /\ calls # <<>> /\ limiter.callsInWindow = 0

C13_WindowNeverStale ==
    lastOp \in {"canMakeCall", "recordCall"} => now - limiter.windowStartTime <= Window

\* the count is the number of recordCall invocations since the last reset
CountMatchesRecorded == limiter.callsInWindow = recorded

\* C14: recordCall always sets lastCallTime to now and adds one to
\* callsInWindow, leaving windowStartTime, whether or not the call would be
\* admitted; callsInWindow equals the number of recordCall invocations since
\* the window was last reset.
C14_RecordCallUnconditional ==
    /\ []CountMatchesRecorded
    /\ [][ lastOp' = "recordCall" =>
             /\ limiter' = [limiter EXCEPT !.lastCallTime = now,
                                           !.callsInWindow = limiter.callsInWindow + 1]
             /\ calls' = Append(calls, now)
         ]_vars

\* a call recorded over the limit, which canMakeCall would not have admitted
C14_Witness ==
    /\ lastOp = "recordCall"
    /\ ~disciplined
    /\ limiter.maxCallsPerMinute >= 1
    /\ limiter.callsInWindow > limiter.maxCallsPerMinute

\* C15: canMakeCall never changes lastCallTime; it changes callsInWindow and
\* windowStartTime only by the rollover reset, and never increments the count.
C15_CanMakeCallFrame ==
    [][ lastOp' = "canMakeCall" =>
          /\ limiter'.lastCallTime = limiter.lastCallTime
          /\ now - limiter.windowStartTime <= Window => limiter' = limiter
          /\ limiter'.callsInWindow \in {0, limiter.callsInWindow}
          /\ calls' = calls
      ]_vars

\* an admitting check inside a window that already counts a call
C15_Witness ==
    /\ lastOp = "canMakeCall" /\ lastResult
    /\ limiter.callsInWindow > 0
    /\ limiter.windowStartTime < now

\* C16: getTimeUntilNextCallAllowed changes no field of the limiter, also when
\* the window has expired.
C16_GetTimeReadOnly ==
    [][ lastOp' = "getTimeUntilNextCallAllowed" => limiter' = limiter ]_vars

\* the wait was asked for with an expired window, which stays as it was
C16_Witness ==
    /\ lastOp = "getTimeUntilNextCallAllowed"
    /\ now - limiter.windowStartTime > Window
    /\ limiter.callsInWindow > 0

(***************************************************************************)
(* Properties of the panel (specification Spec).                           *)
(***************************************************************************)
RateOptions(o) == <<o.maxCallsPerMinute, o.minTimeBetweenCalls>>

\* a change of the rate options replaces the instance by one with a fresh
\* window and no history; any other step keeps the instance, and a render for
\* another option keeps its state too
ReplacedOnChangeOnly ==
    /\ RateOptions(options') # RateOptions(options) =>
         /\ govId' # govId
         /\ limiter'.windowStartTime = now'
         /\ limiter'.callsInWindow = 0
         /\ limiter'.lastCallTime = 0
         /\ calls' = <<>>
    /\ RateOptions(options') = RateOptions(options) => govId' = govId
    /\ lastOp' = "apiKeyChange" => limiter' = limiter /\ calls' = calls

IsClick(op) == op \in {"clickAdmitted", "clickRejected"}

\* C10 as stated: ... and the first click on an instance made by a change of
\* the rate options is admitted, whatever the replaced instance had recorded.
C10_FirstClickAlwaysAdmitted ==
    [][ /\ ReplacedOnChangeOnly
        /\ (govId > 1 /\ firstClick = "none" /\ IsClick(lastOp'))
             => lastOp' = "clickAdmitted"
      ]_vars

\* C10: a change of maxCallsPerMinute or minTimeBetweenCalls replaces the
\* limiter by a new instance (window starting at the replacement, count 0, no
\* last call); without such a change the instance is kept; and the first click
\* on the new instance is admitted when its maxCallsPerMinute is at least 1.
C10_ReplacedOnConfigChange ==
    [][ /\ ReplacedOnChangeOnly
        /\ ( /\ govId > 1 /\ firstClick = "none" /\ IsClick(lastOp')
             /\ limiter.maxCallsPerMinute >= 1 )
             => lastOp' = "clickAdmitted"
      ]_vars

\* the first click on a replacement is admitted although the replaced instance
\* recorded a call less than the new minTimeBetweenCalls ago
C10_Witness ==
    /\ govId > 1
    /\ lastOp = "clickAdmitted" /\ Len(calls) = 1
    /\ oldLastCallTime > 0
    /\ limiter.minTimeBetweenCalls > 0
    /\ now - oldLastCallTime < limiter.minTimeBetweenCalls

\* the limit an option stands for when only a missing option takes the default
Configured(o, d) == IF o = <<>> THEN d ELSE o[1]

\* C11: at every click the limiter's limits are the configured option values,
\* zero included; the defaults 10 and 2000 stand in only for a missing option.
C11_ConfiguredLimitsEnforced ==
    IsClick(lastOp) =>
      /\ limiter.maxCallsPerMinute =
           Configured(options.maxCallsPerMinute, DefaultMaxCalls)
      /\ limiter.minTimeBetweenCalls =
           Configured(options.minTimeBetweenCalls, DefaultMinTime)
      /\ options.maxCallsPerMinute = <<0>> => lastOp = "clickRejected"

\* the steps in which the external action of an admitted click goes on or ends
ActionOps ==
    {"screenshotDoneNoKey", "screenshotDoneRequest", "screenshotFail",
     "geminiDone", "geminiFail"}

\* ... ends in failure: no API key, screenshot error, model API error
FailOps == {"screenshotDoneNoKey", "screenshotFail", "geminiFail"}

\* ... ends, in success or failure
CompletionOps == FailOps \cup {"geminiDone"}

\* C17: an admitted click passes the check, records exactly one call and then
\* starts the external action, whose later steps record nothing; a rejected
\* click records nothing, starts nothing, keeps the button and the analysis
\* text, and sets the rate-limit message.
C17_ClickRecordsOnce ==
    [][ /\ lastOp' = "clickAdmitted" =>
             /\ canMakeCall(limiter, now)
             /\ calls' = Append(calls, now')
             /\ limiter'.lastCallTime = now'
             /\ limiter'.callsInWindow =
                  (IF now - limiter.windowStartTime > Window
                     THEN 0 ELSE limiter.callsInWindow) + 1
             /\ Len(pending') = Len(pending) + 1
             /\ pending'[Len(pending')].at = "screenshot"
        /\ lastOp' = "clickRejected" =>
             /\ ~canMakeCall(limiter, now)
             /\ calls' = calls
             /\ limiter'.lastCallTime = limiter.lastCallTime
             /\ limiter'.callsInWindow \in {0, limiter.callsInWindow}
             /\ pending' = pending
             /\ UNCHANGED <<buttonText, buttonEnabled, analysisText>>
             /\ rateInfo' # <<>>
        /\ lastOp' \in ActionOps => calls' = calls /\ limiter' = limiter
      ]_vars

\* a click rejected after an admitted click whose analysis was shown
C17_Witness ==
    /\ lastOp = "clickRejected"
    /\ calls # <<>>
    /\ rateInfo # <<>>
    /\ analysisText = "response"
    /\ buttonEnabled

\* the limiter still holds the last recorded call
HoldsLastCall ==
    /\ limiter.callsInWindow = recorded
    /\ calls # <<>> => limiter.lastCallTime = calls[Len(calls)]

\* C18: when the external action fails, callsInWindow and lastCallTime keep the
\* values recordCall set, so the failed attempt counts for later clicks.
C18_FailureKeepsRecord ==
    /\ [](lastOp \in FailOps => HoldsLastCall)
    /\ [][ lastOp' \in FailOps => limiter' = limiter /\ calls' = calls ]_vars

\* the only call of the first instance failed and the next click is rejected
C18_Witness ==
    /\ lastOp = "clickRejected"
    /\ govId = 1 /\ Len(calls) = 1 /\ pending = <<>>
    /\ analysisText \in {"Error: Gemini API Key is not configured",
                         "Error: screenshot", "Error analyzing dashboard"}
    /\ limiter.maxCallsPerMinute >= 1

\* C19: at most one external action is in flight; a click is admitted only
\* when no admitted click's action is still running.
C19_SingleFlight ==
    /\ [](Len(pending) <= 1)
    /\ [][ lastOp' = "clickAdmitted" => pending = <<>> ]_vars

\* a second click admitted after the first one's action has ended
C19_Witness ==
    /\ lastOp = "clickAdmitted"
    /\ Len(calls) >= 2
    /\ Len(pending) = 1

\* C20: when the external action of an admitted click has ended, in success or
\* failure, the button is enabled and reads 'Analyse'; it is disabled only
\* while an action is in flight.
C20_GuardReleased ==
    (pending = <<>> \/ lastOp \in CompletionOps) =>
       buttonEnabled /\ buttonText = "Analyse"

\* the model request failed and the button is back
C20_Witness ==
    /\ lastOp = "geminiFail"
    /\ pending = <<>>
    /\ buttonEnabled /\ buttonText = "Analyse"
    /\ analysisText = "Error analyzing dashboard"

====
